---- MODULE Spec2Model ----
(***************************************************************************)
(* Model of src/app.py: the Banetti "Asset Intelligence Scanner".          *)
(*                                                                         *)
(*   Spec        the batch processing loop (lines 223-273) driving         *)
(*               analyze_single_image (lines 91-189) over the uploads      *)
(*   SpecCatalog get_valid_models (lines 67-88)                            *)
(*   SpecClean   clean_json_string followed by json.loads (lines 59-65,    *)
(*               112, 187)                                                 *)
(*                                                                         *)
(* Text is a sequence of tokens (strings); "x in text" is the search for   *)
(* a contiguous run of tokens.  A JSON / Python value is a record tagged   *)
(* by its kind.                                                            *)
(***************************************************************************)
EXTENDS Integers, Sequences, FiniteSets, TLC

VARIABLES
    \* ---- batch loop (module level of app.py, lines 223-273)
    uploaded_files,  \* the uploaded file names, in upload order
    i,               \* 1-based index of the image the loop is at
    pc,              \* position of the script
    all_votes,       \* master container of vote records
    all_notes,       \* master container of note records
    progress,        \* value of the global progress bar, a fraction num/den
    status,          \* the st.status container of the current image
    page,            \* page-level messages (st.warning, st.error, st.success)
    countdown,       \* content of the st.empty() placeholder
    seconds,         \* the cooldown loop variable
    data, error,     \* the pair returned by analyze_single_image
    \* ---- analyze_single_image (locals and the provider)
    r1,              \* the stage-1 response of the current image
    structure,       \* the decoded stage-1 structure
    in_flight,       \* model requests sent and not yet answered
    \* ---- history
    calls,           \* per image: model calls issued
    submitted,       \* per image: calls of analyze_single_image
    sleeps,          \* per image: one-second sleeps performed
    returned,        \* per handled image: the pair analyze_single_image returned
    \* ---- get_valid_models
    all_models,      \* what genai.list_models() yields
    list_raises,     \* whether configure / list_models raises
    valid_models,    \* the value get_valid_models returned
    mpc,             \* position: "call" before, "listed" after
    \* ---- clean_json_string
    payload,         \* a JSON payload, as the model would emit it
    fence,           \* how the response wraps the payload
    cleaned,         \* clean_json_string(response text)
    decoded,         \* json.loads(cleaned)
    cpc              \* position: "raw" before, "loaded" after

batchVars == <<uploaded_files, i, pc, all_votes, all_notes, progress, status,
               page, countdown, seconds, data, error, r1, structure,
               in_flight, calls, submitted, sleeps, returned>>
catalogVars == <<all_models, list_raises, valid_models, mpc>>
cleanVars == <<payload, fence, cleaned, decoded, cpc>>
vars == <<batchVars, catalogVars, cleanVars>>

(***************************************************************************)
(* Bounds of the model.                                                    *)
(***************************************************************************)
MaxFiles == 2
MaxModels == 4
MaxPayloadLen == 5

(***************************************************************************)
(* Text.                                                                   *)
(***************************************************************************)
\* Python's `pat in text`: pat occurs as a contiguous run of text.
Contains(text, pat) ==
    \E k \in 0..(Len(text) - Len(pat)) :
        \A j \in 1..Len(pat) : text[k + j] = pat[j]

StartsWith(text, pat) ==
    /\ Len(pat) <= Len(text)
    /\ \A j \in 1..Len(pat) : text[j] = pat[j]

(***************************************************************************)
(* JSON values as json.loads builds them, which are Python values.         *)
(***************************************************************************)
PyNone == [kind |-> "NoneType"]
JBool(b) == [kind |-> "bool", b |-> b]
JNum(n) == [kind |-> "int", n |-> n]
JStr(s) == [kind |-> "str", s |-> s]
JArr(a) == [kind |-> "list", items |-> a]
JObj(f) == [kind |-> "dict", fields |-> f]

\* Python truthiness, as `if error`, `elif data`, `if rows and cols` use it.
Truthy(v) ==
    CASE v.kind = "NoneType" -> FALSE
      [] v.kind = "bool" -> v.b
      [] v.kind = "int" -> v.n # 0
      [] v.kind = "str" -> Len(v.s) > 0
      [] v.kind = "list" -> Len(v.items) > 0
      [] v.kind = "dict" -> DOMAIN v.fields # {}

HasKey(v, k) == k \in DOMAIN v.fields

\* dict.get(k, default)
Get(v, k, default) == IF HasKey(v, k) THEN v.fields[k] ELSE default

\* v[k] = x on a dict
SetItem(v, k, x) ==
    JObj([j \in DOMAIN v.fields \cup {k} |-> IF j = k THEN x ELSE v.fields[j]])

\* str(e) of the AttributeError raised by v.get on a value that is no dict
NoGetAttribute(v) == <<"'", v.kind, "' object has no attribute 'get'">>

(***************************************************************************)
(* The generative model provider: what one generate_content call and the   *)
(* decode of its text (json.loads(clean_json_string(r.text))) can come to. *)
(*   raise        generate_content raised; cause is str(e)                 *)
(*   undecodable  json.loads raised; cause is str(e)                       *)
(*   json         the text decoded to value                                *)
(***************************************************************************)
Raise(c) == [outcome |-> "raise", cause |-> c, value |-> PyNone]
Undecodable(c) == [outcome |-> "undecodable", cause |-> c, value |-> PyNone]
Json(v) == [outcome |-> "json", cause |-> <<>>, value |-> v]

RateLimitError == <<"429", " Resource has been exhausted">>
ServerError == <<"500", " Internal error">>
CallErrors == {RateLimitError, ServerError}
DecodeErrors ==
    {<<"Expecting value: line 1 column 1 (char 0)">>,
     <<"Extra data: line 1 column 430 (char ", "429", ")">>}

\* Stage-1 texts that decode: a BoardStructure, and values that violate it.
MatrixStructure ==
    JObj([board_type |-> JStr(<<"voting">>),
          row_headers |-> JArr(<<JStr(<<"R1">>)>>),
          column_headers |-> JArr(<<JStr(<<"C1">>)>>)])
UnknownTypeNoHeaders == JObj([board_type |-> JStr(<<"kanban">>)])
HeadersNotSequences ==
    JObj([board_type |-> JStr(<<"hybrid">>),
          row_headers |-> JNum(5),
          column_headers |-> JStr(<<"x">>)])
StructureNotObject == JArr(<<JStr(<<"voting">>)>>)

Stage1Responses ==
    {Raise(c) : c \in CallErrors} \cup {Undecodable(c) : c \in DecodeErrors}
    \cup {Json(v) : v \in {MatrixStructure, UnknownTypeNoHeaders,
                           HeadersNotSequences, StructureNotObject}}

\* Stage-3 texts that decode: extraction results, and values of other shapes.
Vote1 ==
    JObj([row_label |-> JStr(<<"R1">>), column_label |-> JStr(<<"C1">>),
          dot_count |-> JNum(2), color_breakdown |-> JStr(<<"red">>)])
Vote2 ==
    JObj([row_label |-> JStr(<<"R1">>), column_label |-> JStr(<<"C2">>),
          dot_count |-> JNum(0), color_breakdown |-> JStr(<<>>)])
Note1 ==
    JObj([text |-> JStr(<<"idea">>), category_context |-> JStr(<<"left">>),
          confidence |-> JNum(90)])
FullResult ==
    JObj([voting_data |-> JArr(<<Vote1, Vote2>>),
          sticky_notes |-> JArr(<<Note1>>)])
NotesResult ==
    JObj([voting_data |-> JArr(<<>>), sticky_notes |-> JArr(<<Note1>>)])
EmptyObject == JObj(<<>>)
ResultNotObject == JArr(<<JNum(1)>>)
VoteNotObject ==
    JObj([voting_data |-> JArr(<<Vote1, JStr(<<"x">>)>>),
          sticky_notes |-> JArr(<<Note1>>)])
NotesNotSequence ==
    JObj([voting_data |-> JArr(<<Vote1>>), sticky_notes |-> JNum(5)])

Stage3Values ==
    {FullResult, NotesResult, EmptyObject, PyNone, ResultNotObject,
     VoteNotObject, NotesNotSequence}

Stage3Responses ==
    {Raise(c) : c \in CallErrors} \cup {Undecodable(c) : c \in DecodeErrors}
    \cup {Json(v) : v \in Stage3Values}

(***************************************************************************)
(* analyze_single_image (lines 91-189).                                    *)
(***************************************************************************)
\* The batch loop passes its st.status container (line 240).
StatusContainerGiven == TRUE

\* str(v) inside an f-string: the text itself for a str, the repr otherwise
\* (stood for by the type name).
Format(v) == IF v.kind = "str" THEN v.s ELSE <<"<", v.kind, ">">>

\* Variant of StructureStage: an undecodable text is swallowed and an empty
\* structure stands in for it, so the pipeline goes on.
StructureStageDefaulting(resp) ==
    IF resp.outcome = "raise"
    THEN [ok |-> FALSE, structure |-> PyNone,
          error |-> JStr(<<"Structure Analysis Failed: ">> \o resp.cause)]
    ELSE IF resp.outcome = "undecodable"
    THEN [ok |-> TRUE, structure |-> JObj(<<>>), error |-> PyNone]
    ELSE IF StatusContainerGiven /\ resp.value.kind # "dict"
    THEN [ok |-> FALSE, structure |-> resp.value,
          error |-> JStr(<<"Structure Analysis Failed: ">>
                         \o NoGetAttribute(resp.value))]
    ELSE [ok |-> TRUE, structure |-> resp.value, error |-> PyNone]

\* Variant of StructureStage: the decoded object is validated, and one
\* without both header lists is refused.
StructureStageValidating(resp) ==
    IF resp.outcome # "json"
    THEN [ok |-> FALSE, structure |-> PyNone,
          error |-> JStr(<<"Structure Analysis Failed: ">> \o resp.cause)]
    ELSE IF StatusContainerGiven /\ resp.value.kind # "dict"
    THEN [ok |-> FALSE, structure |-> resp.value,
          error |-> JStr(<<"Structure Analysis Failed: ">>
                         \o NoGetAttribute(resp.value))]
    ELSE IF ~HasKey(resp.value, "row_headers") \/ ~HasKey(resp.value, "column_headers")
    THEN [ok |-> FALSE, structure |-> resp.value,
          error |-> JStr(<<"Structure Analysis Failed: ">> \o <<"schema violation">>)]
    ELSE [ok |-> TRUE, structure |-> resp.value, error |-> PyNone]

\* Lines 106-117: what the try block of stage 1 comes to for a response.
\*   structure: the decoded value; error: the message of the except branch.
\* structure.get of line 115 is evaluated only with a status container.
StructureStage(resp) ==
    IF resp.outcome # "json"
    THEN [ok |-> FALSE, structure |-> PyNone,
          error |-> JStr(<<"Structure Analysis Failed: ">> \o resp.cause)]
    ELSE IF StatusContainerGiven /\ resp.value.kind # "dict"
    THEN [ok |-> FALSE, structure |-> resp.value,
          error |-> JStr(<<"Structure Analysis Failed: ">>
                         \o NoGetAttribute(resp.value))]
    ELSE [ok |-> TRUE, structure |-> resp.value, error |-> PyNone]

\* Line 115: the line written to the status container.
DetectedLine(s) ==
    <<"Detected: ">> \o Format(Get(s, "board_type", JStr(<<"Unknown">>)))

\* Lines 123-135: stage 2, the context of the extraction prompt.
BuildContext(s) ==
    LET rows == Get(s, "row_headers", JArr(<<>>))
        cols == Get(s, "column_headers", JArr(<<>>))
    IN  IF Truthy(rows) /\ Truthy(cols)
        THEN [branch |-> "MATRIX DETECTED", rows |-> rows, cols |-> cols]
        ELSE [branch |-> "TEXT DETECTED", rows |-> PyNone, cols |-> PyNone]

\* Lines 178-189: what the try block of stage 3 returns for a response.
ExtractionStage(resp) ==
    IF resp.outcome = "json"
    THEN [data |-> resp.value, error |-> PyNone]
    ELSE [data |-> PyNone,
          error |-> JStr(<<"Extraction Failed: ">> \o resp.cause)]

StructureRequest(k) == [image |-> k, stage |-> 1, prompt |-> "structure_prompt"]
ExtractionRequest(k, s) ==
    [image |-> k, stage |-> 3, prompt |-> BuildContext(s)]

(***************************************************************************)
(* The batch processing loop (lines 223-273).                              *)
(***************************************************************************)
FileNames == {"a.jpg", "b.png"}
CooldownSeconds == 60

Uploads == UNION {[1..n -> FileNames] : n \in 1..MaxFiles}
N == Len(uploaded_files)
Images == 1..N

\* Variant of IsRateLimit: every error counts as a rate limit.
IsRateLimitAnyError(e) == TRUE

\* Line 243: "429" in str(error)
IsRateLimit(e) == Contains(Format(e), <<"429">>)

\* Variant of TagAndAppend: the tagged entry is inserted at the front.
RECURSIVE TagAndInsertFirst(_, _, _)
TagAndInsertFirst(acc, items, name) ==
    IF items = <<>> THEN [list |-> acc, raised |-> FALSE]
    ELSE IF Head(items).kind # "dict" THEN [list |-> acc, raised |-> TRUE]
    ELSE TagAndInsertFirst(
             <<SetItem(Head(items), "source_file", JStr(<<name>>))>> \o acc,
             Tail(items), name)

\* Lines 261-263 and 266-268: tag each entry and append it; an entry that is
\* no dict raises at the item assignment, after the entries before it.
RECURSIVE TagAndAppend(_, _, _)
TagAndAppend(acc, items, name) ==
    IF items = <<>> THEN [list |-> acc, raised |-> FALSE]
    ELSE IF Head(items).kind # "dict" THEN [list |-> acc, raised |-> TRUE]
    ELSE TagAndAppend(
             Append(acc, SetItem(Head(items), "source_file", JStr(<<name>>))),
             Tail(items), name)

\* Lines 260-263 and 265-268: `if data.get(key): for v in data[key]: ...`.
\* Iterating a truthy value that is no list yields no dict (the characters of
\* a str, the keys of a dict) or raises at once (an int, a bool).
Aggregate(acc, d, key, name) ==
    LET v == Get(d, key, PyNone)
    IN  IF ~Truthy(v) THEN [list |-> acc, raised |-> FALSE]
        ELSE IF v.kind = "list" THEN TagAndAppend(acc, v.items, name)
        ELSE [list |-> acc, raised |-> TRUE]

NewStatus(name) ==
    [label |-> <<"Processing ", name, "...">>, state |-> "running",
     lines |-> <<>>]
StatusWrite(st, line) == [st EXCEPT !.lines = Append(@, line)]
StatusUpdate(st, label, state) == [st EXCEPT !.label = label, !.state = state]

\* Line 247: st.empty(), a placeholder holding one element at a time.
EmptyPlaceholder == [shown |-> "", seconds |-> 0]

BatchInit ==
    /\ uploaded_files \in Uploads
    /\ i = 1
    /\ pc = "loop"
    /\ all_votes = <<>>
    /\ all_notes = <<>>
    /\ progress = [num |-> 0, den |-> 1]
    /\ status = NewStatus("")
    /\ page = <<>>
    /\ countdown = EmptyPlaceholder
    /\ seconds = 0
    /\ data = PyNone
    /\ error = PyNone
    /\ r1 = PyNone
    /\ structure = PyNone
    /\ in_flight = <<>>
    /\ calls = [k \in Images |-> 0]
    /\ submitted = [k \in Images |-> 0]
    /\ sleeps = [k \in Images |-> 0]
    /\ returned = <<>>

\* Lines 233-240 and 92-110: the loop takes the next file, opens its status
\* container and calls analyze_single_image, which sends the stage-1 request.
BeginImage ==
    /\ UNCHANGED <<catalogVars, cleanVars>>
    /\ pc = "loop"
    /\ i <= N
    /\ status' = StatusWrite(NewStatus(uploaded_files[i]),
                             <<"Stage 1: Identifying Board Architecture...">>)
    /\ submitted' = [submitted EXCEPT ![i] = @ + 1]
    /\ in_flight' = Append(in_flight, StructureRequest(i))
    /\ calls' = [calls EXCEPT ![i] = @ + 1]
    /\ r1' = PyNone
    /\ structure' = PyNone
    /\ pc' = "stage1"
    /\ UNCHANGED <<uploaded_files, i, all_votes, all_notes, progress, page,
                   countdown, seconds, data, error, sleeps, returned>>

\* Lines 107-139 and 179: the stage-1 call ends.  On failure the function
\* returns (None, message); otherwise it builds the context and sends the
\* stage-3 request.
Stage1Ends ==
    /\ UNCHANGED <<catalogVars, cleanVars>>
    /\ pc = "stage1"
    /\ \E resp \in Stage1Responses :
        LET s1 == StructureStage(resp)
        IN  /\ r1' = resp
            /\ structure' = s1.structure
            /\ IF s1.ok
               THEN /\ status' = StatusWrite(StatusWrite(StatusWrite(status,
                                     DetectedLine(s1.structure)),
                                     <<"Stage 2: Formulating Counting Strategy...">>),
                                     <<"Stage 3: Running Extraction on ", "model_name", "...">>)
                    /\ in_flight' = <<ExtractionRequest(i, s1.structure)>>
                    /\ calls' = [calls EXCEPT ![i] = @ + 1]
                    /\ pc' = "stage3"
                    /\ UNCHANGED <<data, error, returned>>
               ELSE /\ in_flight' = <<>>
                    /\ data' = PyNone
                    /\ error' = s1.error
                    /\ returned' = Append(returned, [data |-> PyNone, error |-> s1.error])
                    /\ pc' = "returned"
                    /\ UNCHANGED <<status, calls>>
    /\ UNCHANGED <<uploaded_files, i, all_votes, all_notes, progress, page,
                   countdown, seconds, submitted, sleeps>>

\* Lines 179-189: the stage-3 call ends and the function returns.
Stage3Ends ==
    /\ UNCHANGED <<catalogVars, cleanVars>>
    /\ pc = "stage3"
    /\ \E resp \in Stage3Responses :
        LET s3 == ExtractionStage(resp)
        IN  /\ data' = s3.data
            /\ error' = s3.error
            /\ returned' = Append(returned, s3)
    /\ in_flight' = <<>>
    /\ pc' = "returned"
    /\ UNCHANGED <<uploaded_files, i, all_votes, all_notes, progress, status,
                   page, countdown, seconds, r1, structure, calls, submitted,
                   sleeps>>

\* Lines 242-268: the loop body after the call.  An exception raised here is
\* caught by nothing: the script run ends (pc = "aborted").
HandleResult ==
    /\ UNCHANGED <<catalogVars, cleanVars>>
    /\ pc = "returned"
    /\ LET name == uploaded_files[i]
       IN  IF Truthy(error)
           THEN IF IsRateLimit(error)
                THEN /\ status' = StatusUpdate(status, <<"Rate Limit Hit on ", name>>, "error")
                     /\ page' = Append(page, [widget |-> "warning",
                                   text |-> <<"API Rate Limit reached. Cooling down for 60s...">>])
                     /\ countdown' = EmptyPlaceholder
                     /\ seconds' = CooldownSeconds
                     /\ pc' = IF CooldownSeconds > 0 THEN "cooldown" ELSE "progress"
                     /\ UNCHANGED <<all_votes, all_notes>>
                ELSE /\ status' = StatusUpdate(status, <<"Failed: ", name>>, "error")
                     /\ page' = Append(page, [widget |-> "error",
                                   text |-> <<"Skipped ", name, ": ">> \o Format(error)])
                     /\ pc' = "progress"
                     /\ UNCHANGED <<all_votes, all_notes, countdown, seconds>>
           ELSE IF Truthy(data)
           THEN /\ status' = StatusUpdate(status, <<"Completed: ", name>>, "complete")
                /\ IF data.kind # "dict"
                   THEN /\ pc' = "aborted"
                        /\ page' = Append(page, [widget |-> "exception",
                                      text |-> NoGetAttribute(data)])
                        /\ UNCHANGED <<all_votes, all_notes>>
                   ELSE LET votes == Aggregate(all_votes, data, "voting_data", name)
                            notes == Aggregate(all_notes, data, "sticky_notes", name)
                        IN  /\ all_votes' = votes.list
                            /\ all_notes' = IF votes.raised THEN all_notes ELSE notes.list
                            /\ IF votes.raised \/ notes.raised
                               THEN /\ pc' = "aborted"
                                    /\ page' = Append(page, [widget |-> "exception",
                                                  text |-> <<"TypeError">>])
                               ELSE /\ pc' = "progress"
                                    /\ page' = page
                /\ UNCHANGED <<countdown, seconds>>
           ELSE /\ pc' = "progress"
                /\ UNCHANGED <<all_votes, all_notes, status, page, countdown, seconds>>
    /\ UNCHANGED <<uploaded_files, i, progress, data, error, r1, structure,
                   in_flight, calls, submitted, sleeps, returned>>

\* Lines 248-251: one turn of the countdown: write, sleep one second; after
\* the last turn the placeholder shows "Resuming...".
CooldownTick ==
    /\ UNCHANGED <<catalogVars, cleanVars>>
    /\ pc = "cooldown"
    /\ seconds >= 1
    /\ sleeps' = [sleeps EXCEPT ![i] = @ + 1]
    /\ IF seconds = 1
       THEN /\ countdown' = [shown |-> "Resuming...", seconds |-> 0]
            /\ seconds' = seconds
            /\ pc' = "progress"
       ELSE /\ countdown' = [shown |-> "Resuming in", seconds |-> seconds]
            /\ seconds' = seconds - 1
            /\ pc' = "cooldown"
    /\ UNCHANGED <<uploaded_files, i, all_votes, all_notes, progress, status,
                   page, data, error, r1, structure, in_flight, calls,
                   submitted, returned>>

\* Variant of ProgressValue: i / len(uploaded_files), the index as enumerate
\* gives it.
ProgressValueFromIndex(idx, n) == [num |-> idx - 1, den |-> n]

\* Line 271: (i + 1) / len(uploaded_files), i counted from 0; idx is i + 1.
ProgressValue(idx, n) == [num |-> idx, den |-> n]

\* Lines 271-273: the progress bar moves; after the last file the loop ends.
UpdateProgress ==
    /\ UNCHANGED <<catalogVars, cleanVars>>
    /\ pc = "progress"
    /\ progress' = ProgressValue(i, N)
    /\ i' = i + 1
    /\ IF i = N
       THEN /\ pc' = "done"
            /\ page' = Append(page, [widget |-> "success",
                          text |-> <<"Batch Processing Complete.">>])
       ELSE /\ pc' = "loop"
            /\ page' = page
    /\ UNCHANGED <<uploaded_files, all_votes, all_notes, status, countdown,
                   seconds, data, error, r1, structure, in_flight, calls,
                   submitted, sleeps, returned>>

(***************************************************************************)
(* get_valid_models (lines 67-88).                                         *)
(***************************************************************************)
Model(name, methods) == [name |-> name, supported_generation_methods |-> methods]

FlashX == <<"flash", "-x">>
Gemini15ProX == <<"gemini-", "1.5-pro", "-x">>
Gemini3Preview == <<"gemini-", "3", "-preview">>
Other == <<"other">>
LearnLM15Pro == <<"learnlm-", "1.5-pro">>
Gemini20Flash == <<"gemini-", "2.0", "-", "flash">>
Imagen20 == <<"imagen-", "2.0">>
Embedding == <<"embedding-001">>

ModelPool ==
    {Model(n, {"generateContent", "countTokens"}) :
        n \in {FlashX, Gemini15ProX, Gemini3Preview, Other, LearnLM15Pro,
               Gemini20Flash, Imagen20}}
    \cup {Model(Embedding, {"embedContent"})}

Listings == UNION {[1..n -> ModelPool] : n \in 0..MaxModels}

\* Variant of model_sort_key: the family prefix is not asked for.
model_sort_key_loose(name) ==
    IF Contains(name, <<"gemini-", "3">>) THEN 0
    ELSE IF Contains(name, <<"1.5-pro">>) THEN 1
    ELSE IF Contains(name, <<"2.0">>) THEN 2
    ELSE IF Contains(name, <<"flash">>) THEN 3
    ELSE 4

\* Lines 76-82
model_sort_key(name) ==
    IF Contains(name, <<"gemini-", "3">>) THEN 0
    ELSE IF Contains(name, <<"gemini-", "1.5-pro">>) THEN 1
    ELSE IF Contains(name, <<"gemini-", "2.0">>) THEN 2
    ELSE IF Contains(name, <<"flash">>) THEN 3
    ELSE 4

\* Line 74: the names of the models that list generateContent
RECURSIVE GenerativeNames(_)
GenerativeNames(models) ==
    IF models = <<>> THEN <<>>
    ELSE (IF "generateContent" \in Head(models).supported_generation_methods
          THEN <<Head(models).name>> ELSE <<>>)
         \o GenerativeNames(Tail(models))

\* Line 84: list.sort(key=...) is stable: an element goes after every element
\* already placed whose key is not greater.
RECURSIVE InsertByKey(_, _)
InsertByKey(sorted, x) ==
    IF sorted = <<>> THEN <<x>>
    ELSE IF model_sort_key(Head(sorted)) <= model_sort_key(x)
    THEN <<Head(sorted)>> \o InsertByKey(Tail(sorted), x)
    ELSE <<x>> \o sorted

RECURSIVE SortByKey(_)
SortByKey(names) ==
    IF names = <<>> THEN <<>>
    ELSE InsertByKey(SortByKey(SubSeq(names, 1, Len(names) - 1)),
                     names[Len(names)])

CatalogInit ==
    /\ all_models \in Listings
    /\ list_raises \in BOOLEAN
    /\ valid_models = <<>>
    /\ mpc = "call"

\* Lines 71-88
GetValidModels ==
    /\ UNCHANGED <<batchVars, cleanVars>>
    /\ mpc = "call"
    /\ valid_models' = IF list_raises THEN <<>>
                       ELSE SortByKey(GenerativeNames(all_models))
    /\ mpc' = IF list_raises THEN "auth_error" ELSE "listed"
    /\ UNCHANGED <<all_models, list_raises>>

(***************************************************************************)
(* clean_json_string and the decode of its result (lines 59-65, 112, 187). *)
(* A text is a sequence of characters; "json" stands for the four letters. *)
(***************************************************************************)
\* The backtick character.
BT == "BACKTICK"
QUOTE == "\""
Whitespace == {" ", "\n"}
Alphabet == {BT, "json", " ", "\n", QUOTE, "a", "1"}

Texts == UNION {[1..n -> Alphabet] : n \in 0..MaxPayloadLen}
Fences == {"none", "fence-json", "fence"}

RECURSIVE SkipWhitespace(_)
SkipWhitespace(t) ==
    IF t # <<>> /\ Head(t) \in Whitespace THEN SkipWhitespace(Tail(t)) ELSE t

\* re.sub(marker followed by \s*, '', t): every match, left to right, is
\* dropped together with the whitespace after it.
RECURSIVE RemoveAll(_, _)
RemoveAll(t, marker) ==
    IF t = <<>> THEN <<>>
    ELSE IF StartsWith(t, marker)
    THEN RemoveAll(SkipWhitespace(SubSeq(t, Len(marker) + 1, Len(t))), marker)
    ELSE <<Head(t)>> \o RemoveAll(Tail(t), marker)

RECURSIVE Reverse(_)
Reverse(t) == IF t = <<>> THEN <<>> ELSE Reverse(Tail(t)) \o <<Head(t)>>

\* str.strip()
Strip(t) == Reverse(SkipWhitespace(Reverse(SkipWhitespace(t))))

\* Lines 63-65
clean_json_string(json_str) ==
    Strip(RemoveAll(RemoveAll(json_str, <<BT, BT, BT, "json">>), <<BT, BT, BT>>))

\* json.loads on the scalar part of JSON: whitespace, then a string literal
\* (no raw quote or newline inside) or a number, then whitespace.
RECURSIVE DigitsValue(_)
DigitsValue(t) == IF t = <<>> THEN 0 ELSE 10 * DigitsValue(SubSeq(t, 1, Len(t) - 1)) + 1

JsonLoads(t) ==
    LET b == Strip(t)
    IN  IF /\ Len(b) >= 2
           /\ b[1] = QUOTE
           /\ b[Len(b)] = QUOTE
           /\ \A k \in 2..(Len(b) - 1) : b[k] \notin {QUOTE, "\n"}
        THEN [ok |-> TRUE, value |-> JStr(SubSeq(b, 2, Len(b) - 1))]
        ELSE IF Len(b) >= 1 /\ \A k \in 1..Len(b) : b[k] = "1"
        THEN [ok |-> TRUE, value |-> JNum(DigitsValue(b))]
        ELSE [ok |-> FALSE, value |-> PyNone]

\* The response text: the payload alone, or inside a fenced block.
Wrap(p, f) ==
    IF f = "fence-json" THEN <<BT, BT, BT, "json", "\n">> \o p \o <<"\n", BT, BT, BT>>
    ELSE IF f = "fence" THEN <<BT, BT, BT, "\n">> \o p \o <<"\n", BT, BT, BT>>
    ELSE p

CleanInit ==
    /\ payload \in Texts
    /\ fence \in Fences
    /\ cleaned = <<>>
    /\ decoded = [ok |-> FALSE, value |-> PyNone]
    /\ cpc = "raw"

\* Lines 112 and 187: json.loads(clean_json_string(r.text))
CleanAndLoad ==
    /\ UNCHANGED <<batchVars, catalogVars>>
    /\ cpc = "raw"
    /\ cleaned' = clean_json_string(Wrap(payload, fence))
    /\ decoded' = JsonLoads(cleaned')
    /\ cpc' = "loaded"
    /\ UNCHANGED <<payload, fence>>

(***************************************************************************)
(* Specifications.                                                         *)
(***************************************************************************)
BatchIdle ==
    /\ uploaded_files = <<>>
    /\ i = 1
    /\ pc = "idle"
    /\ all_votes = <<>>
    /\ all_notes = <<>>
    /\ progress = [num |-> 0, den |-> 1]
    /\ status = NewStatus("")
    /\ page = <<>>
    /\ countdown = EmptyPlaceholder
    /\ seconds = 0
    /\ data = PyNone
    /\ error = PyNone
    /\ r1 = PyNone
    /\ structure = PyNone
    /\ in_flight = <<>>
    /\ calls = <<>>
    /\ submitted = <<>>
    /\ sleeps = <<>>
    /\ returned = <<>>

CatalogIdle ==
    /\ all_models = <<>>
    /\ list_raises = FALSE
    /\ valid_models = <<>>
    /\ mpc = "idle"

CleanIdle ==
    /\ payload = <<>>
    /\ fence = "none"
    /\ cleaned = <<>>
    /\ decoded = [ok |-> FALSE, value |-> PyNone]
    /\ cpc = "idle"

Init == BatchInit /\ CatalogIdle /\ CleanIdle
Next ==
    \/ BeginImage
    \/ Stage1Ends
    \/ Stage3Ends
    \/ HandleResult
    \/ CooldownTick
    \/ UpdateProgress
Spec == Init /\ [][Next]_vars

InitCatalog == BatchIdle /\ CatalogInit /\ CleanIdle
NextCatalog == GetValidModels
SpecCatalog == InitCatalog /\ [][NextCatalog]_vars

InitClean == BatchIdle /\ CatalogIdle /\ CleanInit
NextClean == CleanAndLoad
SpecClean == InitClean /\ [][NextClean]_vars

(***************************************************************************)
(* Properties.                                                             *)
(***************************************************************************)
\* The response of the current image's stage-1 call has arrived.
Stage1Answered == "outcome" \in DOMAIN r1
Stage1CallOrDecodeFailed == Stage1Answered /\ r1.outcome \in {"raise", "undecodable"}

IsStructureError(e) ==
    e.kind = "str" /\ StartsWith(e.s, <<"Structure Analysis Failed: ">>)
IsExtractionError(e) ==
    e.kind = "str" /\ StartsWith(e.s, <<"Extraction Failed: ">>)

\* The image the loop is at has been submitted and not yet left.
AtImage == pc \in {"stage1", "stage3", "returned", "cooldown", "progress", "aborted"}

\* C1: an image whose stage-1 call raises, or whose stage-1 text cannot be
\* decoded, gets no stage-3 call: analyze_single_image returns
\* (None, "Structure Analysis Failed: ...") after exactly one model call.
C1_StructureFailureShortCircuits ==
    /\ (AtImage /\ Stage1CallOrDecodeFailed) =>
          /\ pc # "stage3"
          /\ in_flight = <<>>
          /\ calls[i] = 1
          /\ Len(returned) = i
          /\ returned[i].data = PyNone
          /\ IsStructureError(returned[i].error)
          /\ data = PyNone /\ error = returned[i].error
    /\ \A k \in 1..Len(in_flight) :
          in_flight[k].stage = 3 => (Stage1Answered /\ r1.outcome = "json")
    /\ \A k \in 1..Len(returned) :
          IsStructureError(returned[k].error) => calls[k] = 1

\* C1 witness: the function has returned for an undecodable stage-1 text.
C1_Witness ==
    /\ pc = "returned"
    /\ Stage1Answered /\ r1.outcome = "undecodable"
    /\ calls[i] = 1
    /\ IsStructureError(error)

\* What image k adds to a master container: the entries under key, each with
\* source_file set to the image's name, when its pipeline gave a result.
Contribution(k, key) ==
    LET d == returned[k].data
        name == uploaded_files[k]
    IN  IF returned[k].error = PyNone /\ d.kind = "dict" /\ HasKey(d, key)
           /\ d.fields[key].kind = "list"
        THEN [j \in 1..Len(d.fields[key].items) |->
                 JObj(("source_file" :> JStr(<<name>>))
                      @@ d.fields[key].items[j].fields)]
        ELSE <<>>

RECURSIVE ConcatUpTo(_, _)
ConcatUpTo(n, key) ==
    IF n = 0 THEN <<>> ELSE ConcatUpTo(n - 1, key) \o Contribution(n, key)

\* C2: between images and after the loop, all_votes (all_notes) is the
\* concatenation, in upload order, of the voting_data (sticky_notes) records
\* of the images handled whose pipeline succeeded, each tagged with the name
\* of its image; a failed image adds nothing.
C2_AggregateIsConcatenation ==
    pc \in {"loop", "done"} =>
        /\ all_votes = ConcatUpTo(Len(returned), "voting_data")
        /\ all_notes = ConcatUpTo(Len(returned), "sticky_notes")
        /\ (pc = "done" => Len(returned) = N)

\* C2 witness: a batch of two differently named images has ended, the first
\* failed with a 429 and the second gave records.
C2_Witness ==
    /\ pc = "done"
    /\ N = 2
    /\ uploaded_files[1] # uploaded_files[2]
    /\ returned[1].error = JStr(<<"Extraction Failed: ">> \o RateLimitError)
    /\ returned[2].data = FullResult
    /\ Len(all_votes) = 2 /\ Len(all_notes) = 1

\* The error text of image k contains "429".
Has429(k) ==
    /\ returned[k].error.kind = "str"
    /\ \E j \in 1..Len(returned[k].error.s) : returned[k].error.s[j] = "429"

\* Image k has been handled up to its progress update.
PastHandling(k) == k < i \/ (k = i /\ pc = "progress")

\* C3: an image is cooled down for, with 60 one-second sleeps, exactly when
\* its error text contains "429"; the cooldown is over before the next
\* image's first model call, and no image is submitted twice.
C3_CooldownOncePerRateLimit ==
    /\ \A k \in Images :
          /\ submitted[k] <= 1
          /\ (k < i => submitted[k] = 1)
          /\ (k > i => submitted[k] = 0 /\ calls[k] = 0)
          /\ sleeps[k] <= CooldownSeconds
          /\ (sleeps[k] > 0 => (k <= Len(returned) /\ Has429(k)))
          /\ ((PastHandling(k) /\ k <= Len(returned)) =>
                 sleeps[k] = IF Has429(k) THEN 60 ELSE 0)
    /\ (pc = "cooldown" => in_flight = <<>>)
    /\ (in_flight # <<>> => \A k \in 1..(i - 1) :
                               sleeps[k] = IF Has429(k) THEN 60 ELSE 0)

\* C3 witness: the second image's stage-1 call is in flight after the first
\* image was cooled down for.
C3_Witness ==
    /\ N = 2 /\ i = 2
    /\ pc = "stage1"
    /\ in_flight = <<StructureRequest(2)>>
    /\ Has429(1)
    /\ sleeps[1] = 60
    /\ submitted[1] = 1

\* C4: one bad image never aborts the batch: whatever the two responses of an
\* image come to, no exception escapes the loop body and ends the script run
\* before the later images and "Batch Processing Complete".
C4_BatchNeverAborts == pc # "aborted"

\* C5: analyze_single_image returns exactly one of a result and an error:
\* (result, None) or (None, message), a stage-3 failure being an "Extraction
\* Failed" message; and the loop marks every image it has handled either
\* completed or failed.
C5_ExactlyOneOfResultAndError ==
    /\ \A k \in 1..Len(returned) :
          /\ (returned[k].data = PyNone) # (returned[k].error = PyNone)
          /\ (returned[k].error # PyNone =>
                 IsStructureError(returned[k].error)
                 \/ IsExtractionError(returned[k].error))
    /\ (pc \in {"cooldown", "progress"} => status.state \in {"complete", "error"})

\* The BoardStructure shape: an object whose board_type is one of the four
\* kinds and whose row_headers and column_headers are sequences of strings.
BoardTypes == {<<"voting">>, <<"notes">>, <<"hybrid">>, <<"unknown">>}

IsStringSequence(v) ==
    v.kind = "list" /\ \A j \in 1..Len(v.items) : v.items[j].kind = "str"

IsBoardStructure(v) ==
    /\ v.kind = "dict"
    /\ HasKey(v, "board_type")
    /\ v.fields["board_type"].kind = "str"
    /\ v.fields["board_type"].s \in BoardTypes
    /\ \A h \in {"row_headers", "column_headers"} :
          HasKey(v, h) /\ IsStringSequence(v.fields[h])

\* C6 as claimed: a stage-1 text that decodes to a value violating the
\* BoardStructure shape ends the pipeline of its image with a structure
\* error: no stage-3 call is made.
C6_ShapeViolationIsStructureError ==
    (AtImage /\ Stage1Answered /\ r1.outcome = "json"
        /\ ~IsBoardStructure(r1.value)) =>
        /\ pc # "stage3"
        /\ calls[i] = 1
        /\ IsStructureError(returned[i].error)

\* C6 amended: a decoded stage-1 value that is no object ends the pipeline
\* of its image with a structure error after one model call; a decoded
\* object is not validated: whatever its board_type and headers, stage 2
\* builds the context from it (the matrix branch when both header values are
\* truthy, else the text branch) and the stage-3 call is made.
C6_OnlyNonObjectIsStructureError ==
    (AtImage /\ Stage1Answered /\ r1.outcome = "json") =>
        IF r1.value.kind # "dict"
        THEN /\ pc # "stage3"
             /\ calls[i] = 1
             /\ returned[i].data = PyNone
             /\ IsStructureError(returned[i].error)
        ELSE /\ calls[i] = 2
             /\ structure = r1.value
             /\ (pc = "stage3" =>
                    /\ Len(in_flight) = 1
                    /\ in_flight[1].stage = 3
                    /\ in_flight[1].image = i
                    /\ (in_flight[1].prompt.branch = "MATRIX DETECTED") =
                           (/\ HasKey(r1.value, "row_headers")
                            /\ HasKey(r1.value, "column_headers")
                            /\ Truthy(r1.value.fields["row_headers"])
                            /\ Truthy(r1.value.fields["column_headers"])))
             /\ (pc # "stage3" => ~IsStructureError(returned[i].error))

\* C6 witness: the stage-3 call is in flight for an image whose structure
\* has a board_type outside the four kinds and no headers.
C6_Witness ==
    /\ pc = "stage3"
    /\ Stage1Answered /\ r1 = Json(UnknownTypeNoHeaders)
    /\ ~IsBoardStructure(r1.value)
    /\ in_flight = <<ExtractionRequest(i, UnknownTypeNoHeaders)>>
    /\ in_flight[1].prompt.branch = "TEXT DETECTED"

\* Everything the page shows about the current image and the batch.
VisibleTexts ==
    {status.label} \cup {status.lines[j] : j \in 1..Len(status.lines)}
    \cup {page[j].text : j \in 1..Len(page)}

CooldownAnnounced ==
    \E j \in 1..Len(page) :
        page[j].widget = "warning" /\ Contains(page[j].text, <<"API Rate Limit reached. Cooling down for 60s...">>)

\* C7: for an image whose pipeline failed, the page names the image, shows
\* the error text (which names the stage) and tells whether a cooldown was
\* triggered, for a 429 failure as for any other.
C7_FailureIsReported ==
    (pc \in {"cooldown", "progress"} /\ Truthy(error)) =>
        /\ \E t \in VisibleTexts : Contains(t, <<uploaded_files[i]>>)
        /\ \E t \in VisibleTexts : Contains(t, error.s)
        /\ (sleeps[i] > 0 \/ pc = "cooldown") => CooldownAnnounced

\* C8: the progress value never decreases; between images and at the end it
\* is (images handled) / N, and 1 when the batch has ended; at most one model
\* request is in flight, and it is of the image the loop is at.
C8_ProgressAndOneRequest ==
    /\ [](/\ Len(in_flight) <= 1
          /\ \A k \in 1..Len(in_flight) : in_flight[k].image = i
          /\ (pc \in {"loop", "done"} =>
                 progress.num * N = Len(returned) * progress.den)
          /\ (pc = "done" => progress.num = progress.den /\ Len(returned) = N))
    /\ [][progress'.num * progress.den >= progress.num * progress'.den]_vars

\* C8 witness: the loop is between the two images of a batch, at one half.
C8_Witness ==
    /\ N = 2
    /\ pc = "loop"
    /\ Len(returned) = 1
    /\ progress = [num |-> 1, den |-> 2]

\* The rank the claim states, and the rank the code computes.
ClaimedRank(name) ==
    IF Contains(name, <<"gemini-", "3">>) THEN 0
    ELSE IF \E j \in 1..Len(name) : name[j] = "1.5-pro" THEN 1
    ELSE IF \E j \in 1..Len(name) : name[j] = "2.0" THEN 2
    ELSE IF \E j \in 1..Len(name) : name[j] = "flash" THEN 3
    ELSE 4

HasRun(name, a, b) == \E j \in 1..(Len(name) - 1) : name[j] = a /\ name[j + 1] = b

FamilyRank(name) ==
    CASE HasRun(name, "gemini-", "3") -> 0
      [] ~HasRun(name, "gemini-", "3") /\ HasRun(name, "gemini-", "1.5-pro") -> 1
      [] ~HasRun(name, "gemini-", "3") /\ ~HasRun(name, "gemini-", "1.5-pro")
           /\ HasRun(name, "gemini-", "2.0") -> 2
      [] OTHER -> IF \E j \in 1..Len(name) : name[j] = "flash" THEN 3 ELSE 4

\* The names of the listed models that support content generation.
UsableNames ==
    LET usable == SelectSeq(all_models,
                     LAMBDA m : "generateContent" \in m.supported_generation_methods)
    IN  [j \in 1..Len(usable) |-> usable[j].name]

\* names ordered by rank (a function on the names), names of equal rank in
\* their order in names
RankOrder(names, rank) ==
    LET Of(r) == SelectSeq(names, LAMBDA n : rank[n] = r)
    IN  Of(0) \o Of(1) \o Of(2) \o Of(3) \o Of(4)

UsableSet == {UsableNames[j] : j \in 1..Len(UsableNames)}

ExampleNames == <<FlashX, Gemini15ProX, Gemini3Preview, Other>>
ExampleOrdered == <<Gemini3Preview, Gemini15ProX, FlashX, Other>>
ListedNames == [j \in 1..Len(all_models) |-> all_models[j].name]

\* C9 as claimed: the result is the usable names ordered by the rank that
\* gives 1 to a name containing "1.5-pro" and 2 to one containing "2.0".
C9_OrderedByClaimedRank ==
    mpc = "listed" =>
        /\ valid_models = RankOrder(UsableNames, [n \in UsableSet |-> ClaimedRank(n)])
        /\ (ListedNames = ExampleNames => valid_models = ExampleOrdered)

\* C9 amended: the result is the usable names ordered by the rank 0 for a
\* name containing "gemini-3", 1 for "gemini-1.5-pro", 2 for "gemini-2.0",
\* 3 for "flash", else 4, names of equal rank in provider order; the example
\* list comes out as stated; a listing that raises gives the empty list.
C9_OrderedByFamilyRank ==
    /\ (mpc = "listed" =>
          /\ valid_models = RankOrder(UsableNames, [n \in UsableSet |-> FamilyRank(n)])
          /\ (ListedNames = ExampleNames => valid_models = ExampleOrdered))
    /\ (mpc = "auth_error" => valid_models = <<>>)

\* C9 witness: the example list has been ranked.
C9_Witness ==
    /\ mpc = "listed"
    /\ ListedNames = ExampleNames
    /\ valid_models = ExampleOrdered

\* C10: a JSON payload inside a fenced block decodes to the value the payload
\* alone decodes to, also when the payload holds a fence marker inside a
\* string.
C10_FencedDecodesAsUnwrapped ==
    (cpc = "loaded" /\ fence # "none" /\ JsonLoads(payload).ok) =>
        decoded = JsonLoads(payload)

====
